---- MODULE Spec2Model ----
(***************************************************************************)
(* code_contexter (src/cli.py): one run of generate_context.               *)
(*                                                                         *)
(* A run validates the twelve pattern options, resolves the root, loads    *)
(* the ignore rules, assembles the tree and the content filter             *)
(* configuration, builds the tree (add_to_tree on every child of the       *)
(* root), prints it, and then prints the body of every file of             *)
(* root.rglob("*") that passes the content configuration.  Any exception   *)
(* raised on the way ends the run with exit code 1 (lines 308-310).        *)
(*                                                                         *)
(* Names and patterns are sequences of tokens; re.search is modelled as    *)
(* the search of a contiguous run of tokens, so patterns are regular       *)
(* expressions without metacharacters.  A path is the sequence of its      *)
(* names relative to the root.                                             *)
(***************************************************************************)
EXTENDS Integers, Sequences, FiniteSets, TLC

VARIABLES
    args,             \* the options of the invocation (generate_context's parameters)
    fs,               \* what every entry under the root is: the content class
                      \* of a file, the kind of a directory
    pc,               \* position of the run
    gitignore_spec,   \* the parsed ignore rules; <<>> stands for None
    tree_filters,     \* the tree configuration (empty until assembled)
    content_filters,  \* the content configuration (empty until assembled)
    tree,             \* nodes added to the root Tree so far: [path, tag]
    todo,             \* entries the current loop has still to visit
    output,           \* what has been printed or echoed so far
    exit_code         \* -1 while running, then the exit code 0 or 1

vars == <<args, fs, pc, gitignore_spec, tree_filters, content_filters,
          tree, todo, output, exit_code>>

None == "None"

\* The most inputs of one run that differ from the default invocation on the
\* reference directory (all files plain text, no option given).
MaxDeviations == 2

(***************************************************************************)
(* The directory under analysis.                                           *)
(***************************************************************************)
file1_txt  == <<"file1", ".", "txt">>
binary_bin == <<"binary", ".", "bin">>
app        == <<"app">>
main_py    == <<"main", ".", "py">>
dot_git    == <<".", "git">>
HEAD       == <<"HEAD">>

Files == {<<file1_txt>>, <<binary_bin>>, <<app, main_py>>, <<dot_git, HEAD>>}
Dirs  == {<<app>>, <<dot_git>>}
Paths == Files \cup Dirs

\* path.is_file(), path.is_dir()
is_file(path) == path \in Files
is_dir(path)  == path \in Dirs

\* path.iterdir() for a directory; the root is the empty path
iterdir(path) ==
    {q \in Paths : Len(q) = Len(path) + 1 /\ SubSeq(q, 1, Len(path)) = path}

\* q is path or lies beneath it
Beneath(path, q) == Len(q) >= Len(path) /\ SubSeq(q, 1, Len(path)) = path

\* What a directory entry is: a directory, or a symbolic link to one.
\* is_dir() and iterdir() follow the link.
DirKinds == {"dir", "symlink"}

\* root_path.rglob("*"): every entry below the root, except that the
\* recursion of pathlib does not descend into a symbolic link to a directory
\* (the link itself is listed)
rglob ==
    {p \in Paths : \A d \in Dirs : (Beneath(d, p) /\ p # d) => fs[d] # "symlink"}

\* What a file holds: nothing, only whitespace, text, or bytes that do not
\* decode as text.
Contents == {"zero", "blank", "text", "undecodable"}

\* path.name
NameOf(path) == path[Len(path)]

\* str(relative_path): the names joined by "/"
RECURSIVE str_path(_)
str_path(path) ==
    IF Len(path) = 1 THEN path[1]
    ELSE str_path(SubSeq(path, 1, Len(path) - 1)) \o <<"/">> \o path[Len(path)]

\* path.suffix.lstrip('.'): what follows the last dot of the name, "" when the
\* name has no dot after its first character
suffix(path) ==
    LET name == NameOf(path)
        dots == {i \in 2..Len(name) - 1 : name[i] = "."}
    IN  IF dots = {} THEN ""
        ELSE name[(CHOOSE i \in dots : \A j \in dots : j <= i) + 1]

\* mimetypes.guess_type by extension
guess_type(path) ==
    CASE suffix(path) \in {"txt", "py"} -> "text"
      [] suffix(path) = "bin"           -> "application"
      [] OTHER                          -> None

\* re.search(pattern, s) for a pattern without metacharacters
re_search(pattern, s) ==
    \E i \in 0..(Len(s) - Len(pattern)) : SubSeq(s, i + 1, i + Len(pattern)) = pattern

\* "x in patterns" for a list
InList(x, patterns) == \E i \in 1..Len(patterns) : patterns[i] = x

(***************************************************************************)
(* Ignore rules: PathSpec.from_lines('gitwildmatch', ...) and match_file.  *)
(* A rule is a line of the rules file: a name (app), a glob on the         *)
(* extension ( *.txt ) or a path with a slash (app/main.py), negated or    *)
(* not.  A pattern that matches a path matches everything beneath it; the  *)
(* last rule that matches a path decides.                                  *)
(***************************************************************************)
Rule(negate, kind, arg) == [negate |-> negate, kind |-> kind, arg |-> arg]

rule_matches(rule, path) ==
    CASE rule.kind = "name" -> \E i \in 1..Len(path) : path[i] = rule.arg
      [] rule.kind = "ext"  ->
            \E i \in 1..Len(path) :
                /\ Len(path[i]) >= 2
                /\ SubSeq(path[i], Len(path[i]) - 1, Len(path[i])) = <<".", rule.arg>>
      [] rule.kind = "path" -> Beneath(rule.arg, path)

match_file(spec, path) ==
    LET hits == {i \in 1..Len(spec) : rule_matches(spec[i], path)}
    IN  /\ hits # {}
        /\ ~spec[CHOOSE i \in hits : \A j \in hits : j <= i].negate

\* "if gitignore_spec and gitignore_spec.match_file(relative_path)"
ignored(spec, path) == Len(spec) > 0 /\ match_file(spec, path)

(***************************************************************************)
(* Classification of a file.                                               *)
(***************************************************************************)
\* is_binary_file: by MIME type; with no MIME type, by trying to read text
is_binary_file(path) ==
    IF guess_type(path) = None
    THEN fs[path] = "undecodable"
    ELSE guess_type(path) # "text"

\* is_file_empty: "true", "false", or "raise" when read_text() fails to decode
is_file_empty(path) ==
    CASE ~is_file(path)        -> "false"
      [] fs[path] = "zero"     -> "true"
      [] is_binary_file(path)  -> "false"
      [] fs[path] = "undecodable" -> "raise"
      [] OTHER -> IF fs[path] = "blank" THEN "true" ELSE "false"

(***************************************************************************)
(* filter_path                                                             *)
(***************************************************************************)
FileMatches(pattern, path) ==
    re_search(pattern, str_path(path)) \/ re_search(pattern, NameOf(path))

DirMatches(pattern, path) == re_search(pattern, str_path(path))

\* any(... for pattern in patterns), for directories and for files
AnyDirMatches(patterns, path) ==
    \E i \in 1..Len(patterns) : DirMatches(patterns[i], path)

AnyFileMatches(patterns, path) ==
    \E i \in 1..Len(patterns) : FileMatches(patterns[i], path)

\* the directory branch, lines 117-121
dir_rule(path, f) ==
    IF f.include_dirs # <<>> THEN AnyDirMatches(f.include_dirs, path)
    ELSE IF f.exclude_dirs # <<>> THEN ~AnyDirMatches(f.exclude_dirs, path)
    ELSE TRUE

\* the file patterns and extension lists, lines 125-133
file_rule(path, f) ==
    IF f.include_files # <<>> THEN AnyFileMatches(f.include_files, path)
    ELSE IF f.exclude_files # <<>> THEN ~AnyFileMatches(f.exclude_files, path)
    ELSE IF f.include_extensions # <<>> THEN InList(suffix(path), f.include_extensions)
    ELSE IF f.exclude_extensions # <<>> THEN ~InList(suffix(path), f.exclude_extensions)
    ELSE TRUE

\* the binary rule, lines 123-124
binary_rule(path, f) == f.include_binary \/ ~is_binary_file(path)

filter_path(path, spec, f) ==
    IF ignored(spec, path) THEN FALSE
    ELSE IF is_dir(path) THEN dir_rule(path, f)
    ELSE binary_rule(path, f) /\ file_rule(path, f)

(***************************************************************************)
(* add_to_tree: the nodes a path adds to its parent, whether it added any, *)
(* and whether an exception left the call.                                 *)
(***************************************************************************)
Node(path, tag) == [path |-> path, tag |-> tag]

NotAdded == [added |-> FALSE, nodes |-> {}, raised |-> FALSE]
Raised   == [added |-> FALSE, nodes |-> {}, raised |-> TRUE]

\* tree_gate with the content configuration passed by mistake
tree_gate_content(path, spec, tf, cf) == filter_path(path, spec, cf)

\* the check of line 161: the tree configuration decides visibility
tree_gate(path, spec, tf, cf) == filter_path(path, spec, tf)

\* the tag of a file node, lines 165-171
file_tag(path, spec, cf) ==
    CASE is_file_empty(path) = "true" -> "empty"
      [] is_binary_file(path)         -> "binary"
      [] filter_path(path, spec, cf)  -> "content"
      [] OTHER                        -> "plain"

RECURSIVE add_to_tree(_, _, _, _)
add_to_tree(path, spec, tf, cf) ==
    IF ignored(spec, path) THEN NotAdded
    ELSE IF ~tree_gate(path, spec, tf, cf) THEN NotAdded
    ELSE IF is_file(path)
    THEN IF is_file_empty(path) = "raise" THEN Raised
         ELSE [added  |-> TRUE,
               nodes  |-> {Node(path, file_tag(path, spec, cf))},
               raised |-> FALSE]
    ELSE LET rs == {add_to_tree(child, spec, tf, cf) : child \in iterdir(path)}
         IN  IF \E r \in rs : r.raised THEN Raised
             ELSE IF \E r \in rs : r.added
             THEN [added  |-> TRUE,
                   nodes  |-> {Node(path, "dir")} \cup UNION {r.nodes : r \in rs},
                   raised |-> FALSE]
             ELSE NotAdded

(***************************************************************************)
(* The options of an invocation.                                           *)
(***************************************************************************)
DirPatterns  == <<app, <<"level1">>>>
FilePatterns == <<<<"app">>, <<"file1">>>>
ExtPatterns  == <<"txt", "bin">>

TreeOptions == {"tree_include_dirs", "tree_exclude_dirs", "tree_include_files",
                "tree_exclude_files", "tree_include_extensions",
                "tree_exclude_extensions"}
ContentOptions == {"content_include_dirs", "content_exclude_dirs",
                   "content_include_files", "content_exclude_files",
                   "content_include_extensions", "content_exclude_extensions"}
ListOptions == TreeOptions \cup ContentOptions

PatternsOf(option) ==
    CASE option \in {"tree_include_dirs", "tree_exclude_dirs",
                     "content_include_dirs", "content_exclude_dirs"} -> DirPatterns
      [] option \in {"tree_include_files", "tree_exclude_files",
                     "content_include_files", "content_exclude_files"} -> FilePatterns
      [] OTHER -> ExtPatterns

\* The rules files an invocation may name.
GitignoreFiles ==
    << <<Rule(FALSE, "ext", "txt")>>,
       <<Rule(FALSE, "name", app)>>,
       <<Rule(FALSE, "name", app), Rule(TRUE, "path", <<app, main_py>>)>>,
       <<Rule(TRUE, "path", <<app, main_py>>), Rule(FALSE, "name", app)>>,
       <<Rule(FALSE, "ext", "txt"), Rule(FALSE, "name", app),
         Rule(TRUE, "path", <<app, main_py>>)>> >>

\* A deviation from the default invocation on the reference directory: one
\* pattern given to one list option, one flag flipped, one rules file named
\* (the last choice names a file that does not exist), one file's content,
\* the directory app being a symbolic link to a directory.
FileSlots == [fs_file1 |-> <<file1_txt>>, fs_binary |-> <<binary_bin>>,
              fs_main |-> <<app, main_py>>, fs_head |-> <<dot_git, HEAD>>]
OddContents == <<"zero", "blank", "undecodable">>

Deviations ==
    UNION {{[slot |-> o, val |-> i] : i \in 1..Len(PatternsOf(o))} : o \in ListOptions}
    \cup {[slot |-> s, val |-> i] : s \in DOMAIN FileSlots, i \in 1..Len(OddContents)}
    \cup {[slot |-> "gitignore", val |-> i] : i \in 1..(Len(GitignoreFiles) + 1)}
    \cup {[slot |-> "include_binary", val |-> 1], [slot |-> "include_git", val |-> 1],
          [slot |-> "app_is_link", val |-> 1]}

Compatible(S, d) ==
    d.slot \in ListOptions \/ \A e \in S : e.slot # d.slot

RECURSIVE DeviationSets(_)
DeviationSets(k) ==
    IF k = 0 THEN {{}}
    ELSE LET smaller == DeviationSets(k - 1)
         IN  smaller \cup
             {S \cup {d} : <<S, d>> \in
                 {<<S, d>> \in smaller \X Deviations : Compatible(S, d)}}

\* the list an option holds: the patterns chosen for it, in a fixed order
OptionList(S, option) ==
    LET ps == PatternsOf(option)
        chosen == {d.val : d \in {e \in S : e.slot = option}}
        RECURSIVE pick(_)
        pick(i) == IF i > Len(ps) THEN <<>>
                   ELSE (IF i \in chosen THEN <<ps[i]>> ELSE <<>>) \o pick(i + 1)
    IN  pick(1)

ArgsOf(S, root_exists) ==
    LET gi == {d.val : d \in {e \in S : e.slot = "gitignore"}}
        g  == IF gi = {} THEN 0 ELSE CHOOSE i \in gi : TRUE
    IN  [o \in ListOptions |-> OptionList(S, o)] @@
        [exclude_git      |-> ~(\E d \in S : d.slot = "include_git"),
         include_binary   |-> \E d \in S : d.slot = "include_binary",
         gitignore        |-> g # 0,
         gitignore_exists |-> g \in 1..Len(GitignoreFiles),
         gitignore_lines  |-> IF g \in 1..Len(GitignoreFiles)
                              THEN GitignoreFiles[g] ELSE <<>>,
         root_exists      |-> root_exists]

FsOf(S) ==
    [p \in Paths |->
        LET ds == {d \in S : d.slot \in DOMAIN FileSlots /\ FileSlots[d.slot] = p}
        IN  IF p \in Dirs
            THEN IF p = <<app>> /\ (\E d \in S : d.slot = "app_is_link")
                 THEN "symlink" ELSE "dir"
            ELSE IF ds = {} THEN "text" ELSE OddContents[(CHOOSE d \in ds : TRUE).val]]

(***************************************************************************)
(* generate_context                                                        *)
(***************************************************************************)
Msg(kind, text) == [kind |-> kind, what |-> <<<<text>>>>]
Out(kind, path) == [kind |-> kind, what |-> path]

\* validate_filters: TRUE when it raises FilteringError
validate_filters(include, exclude) == include # <<>> /\ exclude # <<>>

Call(include, exclude, name) == [include |-> include, exclude |-> exclude, name |-> name]

\* ValidationCalls with the fifth call given the wrong exclude list
ValidationCallsSlip ==
    << Call(args.tree_include_dirs, args.tree_exclude_dirs, "tree directories"),
       Call(args.tree_include_files, args.tree_exclude_files, "tree files"),
       Call(args.tree_include_extensions, args.tree_exclude_extensions,
            "tree extensions"),
       Call(args.content_include_dirs, args.content_exclude_dirs,
            "content directories"),
       Call(args.content_include_files, args.content_exclude_dirs, "content files"),
       Call(args.content_include_extensions, args.content_exclude_extensions,
            "content extensions") >>

\* the six calls of lines 244-249, in order
ValidationCalls ==
    << Call(args.tree_include_dirs, args.tree_exclude_dirs, "tree directories"),
       Call(args.tree_include_files, args.tree_exclude_files, "tree files"),
       Call(args.tree_include_extensions, args.tree_exclude_extensions,
            "tree extensions"),
       Call(args.content_include_dirs, args.content_exclude_dirs,
            "content directories"),
       Call(args.content_include_files, args.content_exclude_files, "content files"),
       Call(args.content_include_extensions, args.content_exclude_extensions,
            "content extensions") >>

Raising == {i \in 1..Len(ValidationCalls) :
                validate_filters(ValidationCalls[i].include, ValidationCalls[i].exclude)}

\* the pattern r"\.git" appended when exclude_git is set
GitPattern == dot_git

NoFilters ==
    [include_dirs |-> <<>>, exclude_dirs |-> <<>>, include_files |-> <<>>,
     exclude_files |-> <<>>, include_extensions |-> <<>>,
     exclude_extensions |-> <<>>, include_binary |-> FALSE]

\* lines 268-276 and 289
TreeFiltersOf(a) ==
    [include_dirs       |-> a.tree_include_dirs,
     exclude_dirs       |-> a.tree_exclude_dirs \o
                            (IF a.exclude_git THEN <<GitPattern>> ELSE <<>>),
     include_files      |-> a.tree_include_files,
     exclude_files      |-> a.tree_exclude_files,
     include_extensions |-> a.tree_include_extensions,
     exclude_extensions |-> a.tree_exclude_extensions,
     include_binary     |-> a.include_binary]

\* lines 278-286 and 290
ContentFiltersOf(a) ==
    [include_dirs       |-> a.tree_include_dirs \o a.content_include_dirs,
     exclude_dirs       |-> a.tree_exclude_dirs \o a.content_exclude_dirs \o
                            (IF a.exclude_git THEN <<GitPattern>> ELSE <<>>),
     include_files      |-> a.tree_include_files \o a.content_include_files,
     exclude_files      |-> a.tree_exclude_files \o a.content_exclude_files,
     include_extensions |-> a.tree_include_extensions \o a.content_include_extensions,
     exclude_extensions |-> a.tree_exclude_extensions \o a.content_exclude_extensions,
     include_binary     |-> a.include_binary]

Init ==
    /\ \E S \in DeviationSets(MaxDeviations), root_exists \in BOOLEAN :
          /\ args = ArgsOf(S, root_exists)
          /\ fs = FsOf(S)
    /\ pc = "validate"
    /\ gitignore_spec = <<>>
    /\ tree_filters = NoFilters
    /\ content_filters = NoFilters
    /\ tree = {}
    /\ todo = {}
    /\ output = {}
    /\ exit_code = -1

\* "except Exception as e": echo the error, exit with code 1
Abort(messages) ==
    /\ pc' = "failed"
    /\ output' = output \cup messages
    /\ exit_code' = 1

\* lines 244-249: one of the calls raises; the first one in order is reported
ValidateFails ==
    /\ pc = "validate"
    /\ Raising # {}
    /\ LET first == CHOOSE i \in Raising : \A j \in Raising : i <= j
       IN  Abort({Msg("error", ValidationCalls[first].name)})
    /\ UNCHANGED <<args, fs, gitignore_spec, tree_filters, content_filters, tree, todo>>

ValidatePasses ==
    /\ pc = "validate"
    /\ Raising = {}
    /\ pc' = "resolve"
    /\ UNCHANGED <<args, fs, gitignore_spec, tree_filters, content_filters,
                   tree, todo, output, exit_code>>

\* lines 251-254: the message, then typer.Exit, which the handler catches
RootMissing ==
    /\ pc = "resolve"
    /\ ~args.root_exists
    /\ Abort({Msg("echo", "path does not exist"), Msg("error", "exit")})
    /\ UNCHANGED <<args, fs, gitignore_spec, tree_filters, content_filters, tree, todo>>

\* lines 256-290: the ignore rules and the two configurations
Setup ==
    /\ pc = "resolve"
    /\ args.root_exists
    /\ gitignore_spec' = IF args.gitignore_exists THEN args.gitignore_lines ELSE <<>>
    /\ output' = IF args.gitignore /\ ~args.gitignore_exists
                 THEN output \cup {Msg("warning", "gitignore does not exist")}
                 ELSE output
    /\ tree_filters' = TreeFiltersOf(args)
    /\ content_filters' = ContentFiltersOf(args)
    /\ todo' = iterdir(<<>>)
    /\ pc' = "tree"
    /\ UNCHANGED <<args, fs, tree, exit_code>>

\* lines 294-295: one child of the root
TreeStep(child) ==
    /\ pc = "tree"
    /\ child \in todo
    /\ LET r == add_to_tree(child, gitignore_spec, tree_filters, content_filters)
       IN  /\ ~r.raised
           /\ tree' = tree \cup r.nodes
    /\ todo' = todo \ {child}
    /\ UNCHANGED <<args, fs, pc, gitignore_spec, tree_filters, content_filters,
                   output, exit_code>>

\* the same, when reading a file under the child raises
TreeStepRaises(child) ==
    /\ pc = "tree"
    /\ child \in todo
    /\ add_to_tree(child, gitignore_spec, tree_filters, content_filters).raised
    /\ Abort({Msg("error", "decode")})
    /\ UNCHANGED <<args, fs, gitignore_spec, tree_filters, content_filters, tree, todo>>

\* lines 297-300, and the start of the content loop over the files of rglob
PrintTree ==
    /\ pc = "tree"
    /\ todo = {}
    /\ output' = output \cup
                 {IF tree # {} THEN Msg("tree", "") ELSE Msg("no visible content", "")}
    /\ todo' = {item \in rglob : is_file(item)}
    /\ pc' = "content"
    /\ UNCHANGED <<args, fs, gitignore_spec, tree_filters, content_filters,
                   tree, exit_code>>

\* the condition of lines 304-305
content_gate(item, spec, cf) ==
    /\ filter_path(item, spec, cf)
    /\ (~is_binary_file(item) \/ cf.include_binary)

\* lines 303-306: a file that is filtered out, or that print_file_contents
\* finds empty
ContentSkip(item) ==
    /\ pc = "content"
    /\ item \in todo
    /\ \/ ~content_gate(item, gitignore_spec, content_filters)
       \/ is_file_empty(item) = "true"
    /\ todo' = todo \ {item}
    /\ UNCHANGED <<args, fs, pc, gitignore_spec, tree_filters, content_filters,
                   tree, output, exit_code>>

\* print_file_contents: header, highlighted body, footer
ContentEmit(item) ==
    /\ pc = "content"
    /\ item \in todo
    /\ content_gate(item, gitignore_spec, content_filters)
    /\ is_file_empty(item) = "false"
    /\ fs[item] # "undecodable"
    /\ output' = output \cup {Out("header", item), Out("body", item)}
    /\ todo' = todo \ {item}
    /\ UNCHANGED <<args, fs, pc, gitignore_spec, tree_filters, content_filters,
                   tree, exit_code>>

\* print_file_contents raises: in is_file_empty (read_text), or in
\* Syntax.from_path after the header was printed
ContentRaises(item) ==
    /\ pc = "content"
    /\ item \in todo
    /\ content_gate(item, gitignore_spec, content_filters)
    /\ \/ /\ is_file_empty(item) = "raise"
          /\ Abort({Msg("error", "decode")})
       \/ /\ is_file_empty(item) = "false"
          /\ fs[item] = "undecodable"
          /\ Abort({Out("header", item), Msg("error", "decode")})
    /\ UNCHANGED <<args, fs, gitignore_spec, tree_filters, content_filters, tree, todo>>

\* the loop is over: the command returns
Finish ==
    /\ pc = "content"
    /\ todo = {}
    /\ pc' = "done"
    /\ exit_code' = 0
    /\ UNCHANGED <<args, fs, gitignore_spec, tree_filters, content_filters,
                   tree, todo, output>>

Next ==
    \/ ValidateFails
    \/ ValidatePasses
    \/ RootMissing
    \/ Setup
    \/ \E child \in Paths : TreeStep(child)
    \/ \E child \in Paths : TreeStepRaises(child)
    \/ PrintTree
    \/ \E item \in Files : ContentSkip(item)
    \/ \E item \in Files : ContentEmit(item)
    \/ \E item \in Files : ContentRaises(item)
    \/ Finish

Spec == Init /\ [][Next]_vars

TypeOK ==
    /\ pc \in {"validate", "resolve", "tree", "content", "done", "failed"}
    /\ fs \in [Paths -> Contents \cup DirKinds]
    /\ \A p \in Paths : fs[p] \in DirKinds <=> p \in Dirs
    /\ exit_code \in {-1, 0, 1}
    /\ todo \subseteq Paths
    /\ \A n \in tree : n.path \in Paths

(***************************************************************************)
(* What a run has shown.                                                   *)
(***************************************************************************)
TreePaths == {n.path : n \in tree}
Emitted   == {o.what : o \in {x \in output : x.kind = "body"}}

\* the configurations are assembled and a traversal has started
Assembled == pc \in {"tree", "content", "done"} \/ (pc = "failed" /\ todo # {})

\* the tree, or the notice that nothing is visible, has been printed
TreePrinted == \E o \in output : o.kind \in {"tree", "no visible content"}

\* the run is over
Ended == pc \in {"done", "failed"}

\* each include/exclude pair of a configuration has at most one side
Exclusive(f) ==
    /\ f.include_dirs = <<>> \/ f.exclude_dirs = <<>>
    /\ f.include_files = <<>> \/ f.exclude_files = <<>>
    /\ f.include_extensions = <<>> \/ f.exclude_extensions = <<>>

\* the whole tree pass as a function of the configurations: whether it
\* raised, and the paths of the nodes it shows
TreeOutcome(spec, tf, cf) ==
    LET rs == {add_to_tree(child, spec, tf, cf) : child \in iterdir(<<>>)}
    IN  IF \E r \in rs : r.raised
        THEN [raised |-> TRUE, paths |-> {}]
        ELSE [raised |-> FALSE, paths |-> {n.path : n \in UNION {r.nodes : r \in rs}}]

(***************************************************************************)
(* C1..C5                                                                  *)
(***************************************************************************)
\* C1: a path the ignore rules match, and everything beneath it, is neither a
\* node of the tree nor a file whose body is emitted, also when a descendant
\* is not itself matched by the rules.
C1_IgnoredSubtreeNeverShown ==
    \A p \in Paths :
        ignored(gitignore_spec, p) =>
            \A q \in Paths :
                Beneath(p, q) => q \notin TreePaths /\ q \notin Emitted

\* the tree half of C1 on its own
C1_IgnoredSubtreeNotInTree ==
    \A p \in Paths :
        ignored(gitignore_spec, p) =>
            \A q \in Paths : Beneath(p, q) => q \notin TreePaths

\* C2: nothing beneath a directory that fails the directory rule appears in
\* the tree, and no file beneath it has its body emitted, whatever file or
\* extension patterns the file matches.
C2_ExcludedDirectoryHidesSubtree ==
    Assembled =>
        \A d \in Dirs : \A q \in Paths :
            (Beneath(d, q) /\ q # d) =>
                /\ ~dir_rule(d, tree_filters) => q \notin TreePaths
                /\ ~dir_rule(d, content_filters) => q \notin Emitted

\* the tree half of C2 on its own
C2_ExcludedDirectoryNotInTree ==
    Assembled =>
        \A d \in Dirs : \A q \in Paths :
            (Beneath(d, q) /\ ~dir_rule(d, tree_filters)) => q \notin TreePaths

\* a file is empty: zero bytes, or only whitespace in a file that is not binary
IsEmpty(f) == fs[f] = "zero" \/ (fs[f] = "blank" /\ ~is_binary_file(f))

\* the files C3 says the content pass emits
ContentSet ==
    {f \in Files :
        /\ ~ignored(gitignore_spec, f)
        /\ binary_rule(f, content_filters)
        /\ file_rule(f, content_filters)
        /\ (~is_binary_file(f) \/ content_filters.include_binary)
        /\ ~IsEmpty(f)}

\* C3: the files whose bodies the content pass emits are exactly the files,
\* at any depth, that the ignore rules do not match, that pass the file rules
\* of the content configuration, that are not binary unless binaries are
\* included, and that are not empty; the tree plays no part.
C3_ContentSetExact ==
    (Ended /\ TreePrinted) => Emitted = ContentSet

\* C3 for the runs that end with exit code 0, on the files the enumeration
\* reaches, and its safety half for all runs
C3_ContentSetExactWhenDone ==
    /\ pc = "done" => Emitted = ContentSet \cap rglob
    /\ Assembled => Emitted \subseteq ContentSet

\* C4: a file that fails the file patterns or extension lists of the tree
\* configuration never has its body emitted.
C4_TreeFileRulesBindContent ==
    Assembled =>
        \A f \in Files : ~file_rule(f, tree_filters) => f \notin Emitted

\* C5: whenever the filter engine is called, each include/exclude pair of the
\* tree configuration and of the content configuration has at most one
\* non-empty side.
C5_AssembledPairsExclusive ==
    Assembled => Exclusive(tree_filters) /\ Exclusive(content_filters)

(***************************************************************************)
(* C6..C10                                                                 *)
(***************************************************************************)
\* the categories for which the invocation gives both lists
Conflicting ==
    {c \in {"tree directories", "tree files", "tree extensions",
            "content directories", "content files", "content extensions"} :
        CASE c = "tree directories" ->
                args.tree_include_dirs # <<>> /\ args.tree_exclude_dirs # <<>>
          [] c = "tree files" ->
                args.tree_include_files # <<>> /\ args.tree_exclude_files # <<>>
          [] c = "tree extensions" ->
                args.tree_include_extensions # <<>> /\ args.tree_exclude_extensions # <<>>
          [] c = "content directories" ->
                args.content_include_dirs # <<>> /\ args.content_exclude_dirs # <<>>
          [] c = "content files" ->
                args.content_include_files # <<>> /\ args.content_exclude_files # <<>>
          [] OTHER ->
                args.content_include_extensions # <<>>
                    /\ args.content_exclude_extensions # <<>>}

\* C6: when both lists of one of the six categories are given, the run ends
\* failed with exit code 1 and the configuration error of such a category as
\* its only output; nothing was traversed and no tree line or content block
\* was produced, whether or not the root exists.
C6_ConflictFailsFast ==
    (Conflicting # {} /\ pc # "validate") =>
        /\ pc = "failed"
        /\ exit_code = 1
        /\ \E c \in Conflicting : output = {Msg("error", c)}
        /\ tree = {} /\ todo = {}
        /\ gitignore_spec = <<>>
        /\ tree_filters = NoFilters /\ content_filters = NoFilters

\* a conflicting invocation on a root that does not exist has failed
C6_Witness ==
    /\ args.content_include_files # <<>> /\ args.content_exclude_files # <<>>
    /\ ~args.root_exists
    /\ pc = "failed"

\* a configuration with one more pattern in one of its exclude lists
Stricter(f) ==
    {[f EXCEPT !.exclude_dirs = @ \o <<DirPatterns[i]>>] : i \in 1..Len(DirPatterns)}
    \cup {[f EXCEPT !.exclude_files = @ \o <<FilePatterns[i]>>] :
              i \in 1..Len(FilePatterns)}
    \cup {[f EXCEPT !.exclude_extensions = @ \o <<ExtPatterns[i]>>] :
              i \in 1..Len(ExtPatterns)}

\* C7: with one more pattern in an exclude list of a valid tree
\* configuration, and the result valid, the tree shows no node it did not show
\* before.  Read on the directories whose tree pass does not raise.
C7_ExcludeIsMonotonic ==
    (/\ Assembled
     /\ Exclusive(tree_filters)
     /\ ~TreeOutcome(gitignore_spec, tree_filters, content_filters).raised) =>
        \A g \in Stricter(tree_filters) :
            Exclusive(g) =>
                TreeOutcome(gitignore_spec, g, content_filters).paths
                    \subseteq
                TreeOutcome(gitignore_spec, tree_filters, content_filters).paths

\* the content-specific lists another invocation could give instead: none,
\* one pattern, or two patterns
ContentAlternatives ==
    LET single == {{}} \cup {{d} : d \in {e \in Deviations : e.slot \in ContentOptions}}
    IN  {S \cup T : <<S, T>> \in single \X single}

\* the invocation with its content-specific lists replaced
WithContentLists(a, S) ==
    [o \in DOMAIN a |-> IF o \in ContentOptions THEN OptionList(S, o) ELSE a[o]]

DefaultInvocation ==
    /\ \A o \in ListOptions : args[o] = <<>>
    /\ ~args.gitignore
    /\ args.exclude_git
    /\ ~args.include_binary
    /\ args.root_exists

\* C9: under the default invocation every zero-byte file outside .git is in
\* the tree tagged [empty], whatever its name, extension or binary
\* classification, and its body is never emitted.  Read from the moment the
\* tree is printed.
C9_ZeroByteFilesTaggedEmpty ==
    (DefaultInvocation /\ TreePrinted) =>
        \A f \in Files :
            (fs[f] = "zero" /\ f[1] # dot_git) =>
                /\ \A n \in tree : n.path = f => n.tag = "empty"
                /\ Node(f, "empty") \in tree
                /\ f \notin Emitted

\* the part of C9 that no run contradicts: a zero-byte file never has
\* another tag than [empty], and its body is never emitted
C9_ZeroByteNeverOtherwise ==
    \A f \in Files :
        fs[f] = "zero" =>
            /\ \A n \in tree : n.path = f => n.tag = "empty"
            /\ f \notin Emitted

\* no rule other than the binary rule keeps the file out of tree or content
NothingElseExcludes(f) ==
    /\ \A p \in Paths : Beneath(p, f) => ~ignored(gitignore_spec, p)
    /\ \A d \in Dirs : Beneath(d, f) => dir_rule(d, tree_filters)
    /\ file_rule(f, tree_filters)
    /\ file_rule(f, content_filters)

\* every other file holds text that decodes
OthersDecode(f) == \A g \in Files \ {f} : fs[g] # "undecodable"

\* C10: with binaries excluded no binary file is in the tree or has its body
\* emitted, whatever patterns match it; with binaries included a non-empty
\* binary file that nothing else excludes is in the tree tagged [binary] and
\* has its body emitted.  The second half is read at the end of the runs in
\* which every other file decodes.
C10_BinaryPolicy ==
    Assembled =>
        \A f \in Files :
            is_binary_file(f) =>
                /\ ~tree_filters.include_binary =>
                      f \notin TreePaths /\ f \notin Emitted
                /\ (/\ tree_filters.include_binary
                    /\ fs[f] # "zero"
                    /\ NothingElseExcludes(f)
                    /\ OthersDecode(f)
                    /\ Ended) =>
                      Node(f, "binary") \in tree /\ f \in Emitted

\* C10 with its second half read at exit code 0 only
C10_BinaryPolicyWhenDone ==
    Assembled =>
        \A f \in Files :
            is_binary_file(f) =>
                /\ ~tree_filters.include_binary =>
                      f \notin TreePaths /\ f \notin Emitted
                /\ (/\ tree_filters.include_binary
                    /\ fs[f] # "zero"
                    /\ NothingElseExcludes(f)
                    /\ pc = "done") =>
                      Node(f, "binary") \in tree /\ f \in Emitted

(***************************************************************************)
(* C11..C13                                                                *)
(***************************************************************************)
\* the files whose content cannot be read as text
Unreadable == {f \in Files : fs[f] = "undecodable"}

\* C11: a file whose content fails to be read never puts the run into the
\* failure state: with valid options on a root that exists, the run does not
\* fail; it ends with exit code 0 after every file was visited, and the body
\* of no unreadable file is emitted.
C11_ReadFailureIsSkipped ==
    (Raising = {} /\ args.root_exists) =>
        /\ pc # "failed"
        /\ Ended => (exit_code = 0 /\ todo = {})
        /\ Unreadable \cap Emitted = {}

\* what the handler of lines 308-310 does with a read failure: a run with
\* valid options on a root that exists fails only on a file that does not
\* decode, and then reports the error with exit code 1
C11_OnlyReadFailuresAbort ==
    (Raising = {} /\ args.root_exists /\ pc = "failed") =>
        /\ Unreadable # {}
        /\ Msg("error", "decode") \in output
        /\ exit_code = 1

\* the tree pass is over and left the root Tree without a node
NothingVisible == TreePrinted /\ tree = {}

\* C12: every directory node of the tree has a file node beneath it, also
\* when the directory matches an include pattern; when no child of the root
\* gave a node, the tree is not printed, "No visible content" is reported,
\* and the run does not fail: it ends with exit code 0.
C12_OnlyDirectoriesWithVisibleFiles ==
    /\ \A n \in tree :
          n.tag = "dir" =>
              \E m \in tree : m.tag # "dir" /\ Beneath(n.path, m.path)
    /\ NothingVisible =>
          /\ Msg("no visible content", "") \in output
          /\ Msg("tree", "") \notin output
          /\ pc # "failed"
          /\ Ended => exit_code = 0

\* C12 without the end of the run: the directory nodes, and which of the two
\* messages is printed; the exit code only where the run was not aborted
C12_PrunedAndReported ==
    /\ \A n \in tree :
          n.tag = "dir" =>
              \E m \in tree : m.tag # "dir" /\ Beneath(n.path, m.path)
    /\ NothingVisible =>
          /\ Msg("no visible content", "") \in output
          /\ Msg("tree", "") \notin output
    /\ (TreePrinted /\ tree # {}) =>
          /\ Msg("tree", "") \in output
          /\ Msg("no visible content", "") \notin output
    /\ pc = "done" => exit_code = 0

\* a run has ended in which a directory that matches an include pattern of
\* the tree is absent from the printed tree, nothing beneath it being visible
C12_IncludedDirectoryPruned ==
    /\ pc = "done"
    /\ tree # {}
    /\ AnyDirMatches(tree_filters.include_dirs, <<app>>)
    /\ ~ignored(gitignore_spec, <<app>>)
    /\ <<app>> \notin TreePaths

\* the files the tree pass tagged [content]
TaggedContent == {n.path : n \in {m \in tree : m.tag = "content"}}

\* C13: when a run has ended with exit code 0, every file that the tree pass
\* tagged [content] has had its body emitted by the content pass.
C13_ContentTagIsEmitted ==
    pc = "done" => TaggedContent \subseteq Emitted

\* C13 on the files that the enumeration of the content pass reaches
C13_ContentTagIsEmittedWhenReached ==
    pc = "done" => (TaggedContent \cap rglob) \subseteq Emitted

====
